---- MODULE Spec2Model ----
(***************************************************************************)
(* Model of the entity-recognition page gliner-streamlit.py: one script    *)
(* run after the "Process Text" button is pressed.  The model collaborator *)
(* returns a raw entity list; the page sorts it in place, projects it to a *)
(* table and builds the highlighted markup string in one left-to-right     *)
(* loop.                                                                   *)
(*                                                                         *)
(* A text is a sequence of one-character strings.  The markup string is a  *)
(* sequence of tokens [k, v]: k = "ch" is one character copied from the    *)
(* text, k = "open" is the opening highlight wrapper of the f-string (its  *)
(* layout whitespace and the <span ... background-color:v> tag), k =       *)
(* "label" is the inline label element <span class="entity-label">v</span> *)
(* with the whitespace before it, and k = "close" is the closing </span>   *)
(* with the whitespace around it.                                          *)
(***************************************************************************)
EXTENDS Integers, Sequences, FiniteSets, Bags, TLC

VARIABLES
    pc,           \* position of the script run
    text_input,   \* content of the text area
    entities,     \* the list object returned by predict_entities
    returned,     \* history: value of that list at the moment it was returned
    entities_df,  \* rows of the table
    table_shown,  \* st.dataframe was called
    highlighted,  \* the markup string under construction
    last_idx,     \* the cursor of the highlighting loop
    i,            \* index (1-based) of the next entity of the for loop
    hl_shown,     \* the results container was written with st.markdown
    notice        \* the st.info / st.warning / st.error message of the run

vars == <<pc, text_input, entities, returned, entities_df, table_shown,
          highlighted, last_idx, i, hl_shown, notice>>

\* ---------------------------------------------------------------- bounds
MaxLen == 3
MaxEnts == 2

\* ------------------------------------------------------------ input sets
Alphabet == <<"a", "b", "c", "d", "e", "f", "g", "h">>

Texts == { SubSeq(Alphabet, 1, n) : n \in 0..MaxLen }

\* offsets the collaborator may hand over: valid ones, a negative one and
\* one beyond the end of the text
Offsets(text) == -1..(Len(text) + 1)

\* start, end with 0 <= start < end <= len(text)
ValidSpan(text, ent) ==
    0 <= ent.start /\ ent.start < ent.end /\ ent.end <= Len(text)

\* an entity is a dict with start, end, label and an optional score (scores
\* are counted in 1/10000): any pair of offsets under a label of the colour
\* table with a score, and the valid spans under a label the colour table
\* does not know, without a score
EntityDicts(text) ==
    { [start |-> s, end |-> e, label |-> "drug group", score |-> 9204] :
          s \in Offsets(text), e \in Offsets(text) }
    \cup
    { ent \in { [start |-> s, end |-> e, label |-> "gene"] :
                   s \in Offsets(text), e \in Offsets(text) } :
          ValidSpan(text, ent) }

EntityLists(text) ==
    UNION { [1..n -> EntityDicts(text)] : n \in 0..MaxEnts }

\* -------------------------------------------------------- pure functions
Min(a, b) == IF a < b THEN a ELSE b

Max(a, b) == IF a > b THEN a ELSE b

\* a slice index as str.__getitem__ adjusts it: a negative index counts
\* from the end, and the result is clamped into 0..n
AdjustIndex(idx, n) == IF idx < 0 THEN Max(idx + n, 0) ELSE Min(idx, n)

\* s[lo:hi]
Slice(s, lo, hi) ==
    SubSeq(s, AdjustIndex(lo, Len(s)) + 1, AdjustIndex(hi, Len(s)))

\* s[lo:]
SliceFrom(s, lo) == SubSeq(s, AdjustIndex(lo, Len(s)) + 1, Len(s))

SliceRaisesStrict(s, lo, hi) == lo < 0 \/ hi > Len(s) \/ lo > hi

\* s[lo:hi] raises only when a bound is not an integer (TypeError); integer
\* bounds out of range are adjusted, never rejected
SliceRaises(s, lo, hi) == ~(lo \in Int /\ hi \in Int)

\* ------------------------------------------------------------------ sort
SortKeyEnd(x) == x.end

\* key=lambda x: x['start']
SortKey(x) == x.start

RECURSIVE InsertBeforeTies(_, _)
InsertBeforeTies(sorted, x) ==
    IF sorted = <<>> THEN <<x>>
    ELSE IF SortKey(Head(sorted)) < SortKey(x)
         THEN <<Head(sorted)>> \o InsertBeforeTies(Tail(sorted), x)
         ELSE <<x>> \o sorted

\* x is placed after every element whose key is <= its own: list.sort is
\* stable, elements with equal keys keep their order
RECURSIVE Insert(_, _)
Insert(sorted, x) ==
    IF sorted = <<>> THEN <<x>>
    ELSE IF SortKey(Head(sorted)) <= SortKey(x)
         THEN <<Head(sorted)>> \o Insert(Tail(sorted), x)
         ELSE <<x>> \o sorted

SortDiscarded(list) == list

\* the value of the list after list.sort(key=...)
RECURSIVE ListSort(_)
ListSort(list) ==
    IF list = <<>> THEN <<>>
    ELSE Insert(ListSort(SubSeq(list, 1, Len(list) - 1)), list[Len(list)])

AlwaysTruthy(list) == TRUE

\* `if entities:` a list is truthy when it is not empty
Truthy(list) == Len(list) > 0

\* ----------------------------------------------------------------- table
\* ent.get("score", 0)
Score(ent) == IF "score" \in DOMAIN ent THEN ent.score ELSE 0

\* round(x, 3), x in 1/10000 and not on a tie; the result is in 1/1000
Round3(x) == (x + 5) \div 10

RowInclusiveEnd(text, ent) ==
    [Entity |-> Slice(text, ent.start, ent.end + 1),
     Label  |-> ent.label,
     Start  |-> ent.start,
     End    |-> ent.end,
     Score  |-> Round3(Score(ent))]

\* one dict of the list comprehension handed to pd.DataFrame
Row(text, ent) ==
    [Entity |-> Slice(text, ent.start, ent.end),
     Label  |-> ent.label,
     Start  |-> ent.start,
     End    |-> ent.end,
     Score  |-> Round3(Score(ent))]

Rows(text, list) == [n \in 1..Len(list) |-> Row(text, list[n])]

\* ---------------------------------------------------------------- markup
DefaultColor == "#90caf9"

color_options ==
    [l \in {"drug group", "drug generic name", "drug brand name",
            "chemical or toxins or pesticides"} |->
        CASE l = "drug group" -> "#4dd0e1"
          [] l = "drug generic name" -> "#26a69a"
          [] l = "drug brand name" -> "#fb8c00"
          [] l = "chemical or toxins or pesticides" -> "#8bc34a"]

\* color_options.get(label, "#90caf9")
ColorFor(label) ==
    IF label \in DOMAIN color_options THEN color_options[label]
    ELSE DefaultColor

\* characters of the text copied into the markup string
Chars(s) == [n \in 1..Len(s) |-> [k |-> "ch", v |-> s[n]]]

\* the f-string of the loop body
HighlightedSpan(text, ent) ==
    <<[k |-> "open", v |-> ColorFor(ent.label)]>>
    \o Chars(Slice(text, ent.start, ent.end))
    \o <<[k |-> "label", v |-> ent.label], [k |-> "close", v |-> ""]>>

LoopBodyNoAdvance(text, hl, last, ent) ==
    [highlighted |-> hl \o Chars(Slice(text, last, ent.start))
                       \o HighlightedSpan(text, ent),
     last_idx    |-> last]

LoopBodySkipOverlap(text, hl, last, ent) ==
    IF ent.start < last
    THEN [highlighted |-> hl, last_idx |-> last]
    ELSE [highlighted |-> hl \o Chars(Slice(text, last, ent.start))
                            \o HighlightedSpan(text, ent),
          last_idx    |-> ent.end]

\* one iteration of `for ent in entities`
LoopBody(text, hl, last, ent) ==
    [highlighted |-> hl \o Chars(Slice(text, last, ent.start))
                       \o HighlightedSpan(text, ent),
     last_idx    |-> ent.end]

\* the markup string with the highlight wrappers and label tags removed
IsChar(tok) == tok.k = "ch"

StripMarkup(hl) ==
    LET cs == SelectSeq(hl, IsChar) IN [n \in 1..Len(cs) |-> cs[n].v]

\* --------------------------------------------------------------- actions
Init ==
    /\ pc = "idle"
    /\ text_input = <<>>
    /\ entities = <<>>
    /\ returned = <<>>
    /\ entities_df = <<>>
    /\ table_shown = FALSE
    /\ highlighted = <<>>
    /\ last_idx = 0
    /\ i = 1
    /\ hl_shown = FALSE
    /\ notice = "Enter your text"

\* the user edits the text area
EnterText ==
    /\ pc = "idle"
    /\ \E t \in Texts : text_input' = t
    /\ UNCHANGED <<pc, entities, returned, entities_df, table_shown,
                   highlighted, last_idx, i, hl_shown, notice>>

\* the user presses "Process Text": `if process_button and text_input`
ProcessButton ==
    /\ pc = "idle"
    /\ IF Len(text_input) > 0
       THEN pc' = "load" /\ notice' = ""
       ELSE pc' = "done" /\ notice' = "Please enter some text to process."
    /\ UNCHANGED <<text_input, entities, returned, entities_df, table_shown,
                   highlighted, last_idx, i, hl_shown>>

\* load_model returns the model, or None after st.error
LoadModel ==
    /\ pc = "load"
    /\ \E ok \in BOOLEAN :
          IF ok THEN pc' = "predict" /\ UNCHANGED notice
          ELSE pc' = "done" /\ notice' = "Error loading model"
    /\ UNCHANGED <<text_input, entities, returned, entities_df, table_shown,
                   highlighted, last_idx, i, hl_shown>>

\* model.predict_entities returns a list in any order
Predict ==
    /\ pc = "predict"
    /\ \E list \in EntityLists(text_input) :
          /\ entities' = list
          /\ returned' = list
    /\ pc' = "sort"
    /\ UNCHANGED <<text_input, entities_df, table_shown, highlighted,
                   last_idx, i, hl_shown, notice>>

\* model.predict_entities raises: the except branch
PredictRaises ==
    /\ pc = "predict"
    /\ pc' = "done"
    /\ notice' = "Error processing text: predict_entities"
    /\ UNCHANGED <<text_input, entities, returned, entities_df, table_shown,
                   highlighted, last_idx, i, hl_shown>>

\* entities.sort(key=lambda x: x['start'])
Sort ==
    /\ pc = "sort"
    /\ entities' = ListSort(entities)
    /\ pc' = "sorted"
    /\ UNCHANGED <<text_input, returned, entities_df, table_shown,
                   highlighted, last_idx, i, hl_shown, notice>>

\* `if entities:` then the dataframe, and the loop's initialisation;
\* else the st.info notice
Table ==
    /\ pc = "sorted"
    /\ IF ~Truthy(entities)
       THEN /\ pc' = "done"
            /\ notice' = "No entities were detected in the provided text."
            /\ UNCHANGED <<entities_df, table_shown, highlighted, last_idx, i>>
       ELSE IF \E n \in 1..Len(entities) :
                   SliceRaises(text_input, entities[n].start, entities[n].end)
       THEN /\ pc' = "done"
            /\ notice' = "Error processing text: slice"
            /\ UNCHANGED <<entities_df, table_shown, highlighted, last_idx, i>>
       ELSE /\ entities_df' = Rows(text_input, entities)
            /\ table_shown' = TRUE
            /\ highlighted' = <<>>
            /\ last_idx' = 0
            /\ i' = 1
            /\ pc' = "loop"
            /\ UNCHANGED notice
    /\ UNCHANGED <<text_input, entities, returned, hl_shown>>

\* one iteration of the highlighting loop
Highlight ==
    /\ pc = "loop"
    /\ i <= Len(entities)
    /\ LET ent == entities[i]
           r   == LoopBody(text_input, highlighted, last_idx, ent)
       IN IF \/ SliceRaises(text_input, last_idx, ent.start)
             \/ SliceRaises(text_input, ent.start, ent.end)
          THEN /\ pc' = "done"
               /\ notice' = "Error processing text: slice"
               /\ UNCHANGED <<highlighted, last_idx, i>>
          ELSE /\ highlighted' = r.highlighted
               /\ last_idx' = r.last_idx
               /\ i' = i + 1
               /\ UNCHANGED <<pc, notice>>
    /\ UNCHANGED <<text_input, entities, returned, entities_df, table_shown,
                   hl_shown>>

\* after the loop: the remaining text, then st.markdown
Remaining ==
    /\ pc = "loop"
    /\ i > Len(entities)
    /\ highlighted' = highlighted \o Chars(SliceFrom(text_input, last_idx))
    /\ hl_shown' = TRUE
    /\ pc' = "done"
    /\ UNCHANGED <<text_input, entities, returned, entities_df, table_shown,
                   last_idx, i, notice>>

\* the next script run starts from scratch
Rerun ==
    /\ pc = "done"
    /\ pc' = "idle"
    /\ entities' = <<>>
    /\ returned' = <<>>
    /\ entities_df' = <<>>
    /\ table_shown' = FALSE
    /\ highlighted' = <<>>
    /\ last_idx' = 0
    /\ i' = 1
    /\ hl_shown' = FALSE
    /\ notice' = "Enter your text"
    /\ UNCHANGED text_input

Next ==
    \/ EnterText
    \/ ProcessButton
    \/ LoadModel
    \/ Predict
    \/ PredictRaises
    \/ Sort
    \/ Table
    \/ Highlight
    \/ Remaining
    \/ Rerun

Spec == Init /\ [][Next]_vars

\* ------------------------------------------------- vocabulary of claims
NoEntitiesNotice == "No entities were detected in the provided text."

SliceErrorNotice == "Error processing text: slice"

AllValid(text, list) == \A n \in 1..Len(list) : ValidSpan(text, list[n])

NonOverlapping(list) ==
    \A m, n \in 1..Len(list) :
        m # n => list[m].end <= list[n].start \/ list[n].end <= list[m].start

NonDecreasingStart(list) ==
    \A m, n \in 1..Len(list) : m < n => list[m].start <= list[n].start

\* the multiset of the elements of a list
SeqBag(list) ==
    [x \in { list[n] : n \in 1..Len(list) } |->
        Cardinality({ n \in 1..Len(list) : list[n] = x })]

\* the elements of a list that start at s, in the order of the list
StartingAt(list, s) ==
    LET Test(ent) == ent.start = s IN SelectSeq(list, Test)

RECURSIVE Positions(_, _, _)
Positions(hl, kind, n) ==
    IF n > Len(hl) THEN <<>>
    ELSE (IF hl[n].k = kind THEN <<n>> ELSE <<>>) \o Positions(hl, kind, n + 1)

\* the highlighted regions of a markup string, in order: the characters
\* between each opening wrapper and its label tag, the label and the colour
Regions(hl) ==
    LET o == Positions(hl, "open", 1)
        l == Positions(hl, "label", 1)
    IN [j \in 1..Len(o) |->
           [body  |-> [m \in 1..(l[j] - o[j] - 1) |-> hl[o[j] + m].v],
            label |-> hl[l[j]].v,
            color |-> hl[o[j]].v]]

NumValid(text, list) ==
    Cardinality({ n \in 1..Len(list) : ValidSpan(text, list[n]) })

\* ---------------------------------------------------------------- claims

SortedByStart ==
    /\ pc \in {"sorted", "loop"} \/ table_shown => NonDecreasingStart(entities)
    /\ table_shown =>
          \A m, n \in 1..Len(entities_df) :
              m < n => entities_df[m].Start <= entities_df[n].Start

SortedByStartWitness ==
    /\ pc = "loop"
    /\ i > Len(entities)
    /\ Len(returned) = 2
    /\ returned[1].start > returned[2].start
    /\ entities[1].start < entities[2].start

\* C3: a malformed span produces no table row and no highlighted region,
\* and the valid spans of the same list are still rendered.
MalformedExcluded ==
    (pc = "done" /\ Len(returned) > 0) =>
        /\ Len(entities_df) = NumValid(text_input, returned)
        /\ Len(Regions(highlighted)) = NumValid(text_input, returned)
        /\ NumValid(text_input, returned) > 0 => table_shown /\ hl_shown

\* C4: in the loop, a valid span that starts before the cursor adds no plain
\* text and moves the cursor to max(last_idx, end), never backwards.
OverlapClamp ==
    [][(/\ pc = "loop"
        /\ i <= Len(entities)
        /\ i' = i + 1
        /\ AllValid(text_input, entities)
        /\ entities[i].start < last_idx)
          => /\ last_idx' = Max(last_idx, entities[i].end)
             /\ last_idx' >= last_idx
             /\ highlighted' =
                   highlighted \o HighlightedSpan(text_input, entities[i])]_vars

\* C5 (as stated): an empty entity list gives a table with zero rows and a
\* highlighted rendering identical to the input text.
EmptyListRendered ==
    [][(pc = "sorted" /\ entities = <<>> /\ pc' # pc)
          => /\ table_shown'
             /\ entities_df' = <<>>
             /\ hl_shown'
             /\ StripMarkup(highlighted') = text_input]_vars

\* C5 (amended): an empty entity list is a distinct no-output case: the run
\* ends with the "No entities were detected" notice, and neither a table nor
\* a highlighted rendering is produced.
EmptyListNotice ==
    [][(pc = "sorted" /\ entities = <<>> /\ pc' # pc)
          => /\ pc' = "done"
             /\ notice' = NoEntitiesNotice
             /\ ~table_shown' /\ entities_df' = <<>>
             /\ ~hl_shown' /\ highlighted' = <<>>]_vars

EmptyListNoticeWitness ==
    /\ pc = "done"
    /\ notice = NoEntitiesNotice
    /\ Len(text_input) > 0
    /\ entities = <<>>
    /\ ~table_shown /\ ~hl_shown

\* C6: the table has one row per span of the sorted sequence, in the same
\* order; Label, Start and End are the span's, and Entity is the half-open
\* substring text[start:end].
TableProjection ==
    table_shown =>
        /\ Len(entities_df) = Len(entities)
        /\ \A n \in 1..Len(entities) :
              LET row == entities_df[n]
                  ent == entities[n]
              IN /\ row.Label = ent.label
                 /\ row.Start = ent.start
                 /\ row.End = ent.end
                 /\ row.Entity = Slice(text_input, ent.start, ent.end)
                 /\ ValidSpan(text_input, ent) =>
                       /\ Len(row.Entity) = ent.end - ent.start
                       /\ \A j \in 1..Len(row.Entity) :
                             row.Entity[j] = text_input[ent.start + j]

TableProjectionWitness ==
    /\ table_shown
    /\ Len(entities_df) = 2
    /\ entities_df[1].Label # entities_df[2].Label
    /\ ValidSpan(text_input, entities[1])
    /\ Len(entities_df[1].Entity) = 2
    /\ entities_df[1].End < Len(text_input)
    /\ returned # entities

TieBreakByEnd ==
    pc = "sorted" =>
        \A m, n \in 1..Len(entities) :
            (m < n /\ entities[m].start = entities[n].start)
                => entities[m].end <= entities[n].end

\* C8 (amended): spans with equal start keep their arrival order (end is
\* not compared), and the sorted sequence is non-decreasing in start; so
\* the sequence of starts depends only on the multiset of the raw list.
TieKeepsArrivalOrder ==
    pc = "sorted" =>
        /\ NonDecreasingStart(entities)
        /\ \A s \in Offsets(text_input) :
              StartingAt(entities, s) = StartingAt(returned, s)

TieKeepsArrivalOrderWitness ==
    /\ pc = "sorted"
    /\ Len(returned) = 2
    /\ returned[1].start = returned[2].start
    /\ returned[1].end > returned[2].end
    /\ entities = returned

\* C9: no integer start/end and no text takes the error branch: once the
\* model has returned a non-empty list the table and the rendering are both
\* produced, an empty list ends in the notice, and an empty text in the
\* warning.
NoErrorFromSpans ==
    /\ notice # SliceErrorNotice
    /\ (pc = "done" /\ Len(returned) > 0) =>
          table_shown /\ hl_shown /\ notice = ""
    /\ (pc = "done" /\ text_input = <<>>) =>
          notice = "Please enter some text to process."

NoErrorFromSpansWitness ==
    /\ hl_shown
    /\ table_shown
    /\ notice = ""
    /\ Len(returned) = 2
    /\ returned[1].start > returned[1].end
    /\ returned[1].end < 0
    /\ returned[2].end > Len(text_input)

\* C10: overlapping valid spans are neither merged nor dropped: the sorted
\* sequence is a permutation of the raw list, and the table and the markup
\* have one row and one region per raw span, in the sorted order.
OverlapsPreserved ==
    (hl_shown /\ AllValid(text_input, returned)) =>
        /\ SeqBag(entities) = SeqBag(returned)
        /\ NonDecreasingStart(entities)
        /\ Len(entities_df) = Len(returned)
        /\ Len(Regions(highlighted)) = Len(returned)
        /\ \A n \in 1..Len(entities) :
              /\ Regions(highlighted)[n].label = entities[n].label
              /\ Regions(highlighted)[n].body =
                    SubSeq(text_input, entities[n].start + 1, entities[n].end)

OverlapsPreservedWitness ==
    /\ hl_shown
    /\ Len(returned) = 2
    /\ AllValid(text_input, returned)
    /\ returned[1].start > returned[2].start
    /\ returned[1].start < returned[2].end
    /\ returned[1].end < returned[2].end
    /\ Len(Regions(highlighted)) = 2

====
